---------------------------- MODULE Spec2Model ----------------------------
(***************************************************************************)
(* The two example drivers of vb_core, examples/biexp_example.py and       *)
(* examples/hybrid_example_asl.py, as one state machine.  Each driver is a *)
(* straight-line script: pc is the statement the process is about to run,  *)
(* and an uncaught Python exception moves pc to "error" for good.          *)
(*                                                                         *)
(* Numbers are fixed point: a Python float x is the integer 1000*x         *)
(* (Scale), and the non-finite results of numpy arithmetic are kept as     *)
(* separate values (NaN, Inf).  Calls into other packages (the forward     *)
(* models of vaby, vaby.run, Fabber, the plotting libraries, the files     *)
(* read) are steps whose result is drawn from a small set.                 *)
(*                                                                         *)
(* Reproducibility is a property of two executions, so the state of the    *)
(* random generators and the noisy data are kept once per execution        *)
(* (Runs): both executions get the same command line and the same results  *)
(* from every deterministic call, and differ only in the entropy the       *)
(* unseeded generator starts from.                                         *)
(***************************************************************************)
EXTENDS Integers, Sequences, FiniteSets, TLC

VARIABLES driver,    \* "biexp" | "hybrid": which script runs
          pc,        \* next statement, "done" or "error"
          err,       \* name of the uncaught exception, "" when none
          steps,     \* statements completed so far, in order
          opts,      \* argparse namespace (cli.parse_args())
          rng,       \* numpy global generator state, per execution
          tfseed,    \* tensorflow global seed, per execution (<<>>: unset)
          options,   \* the options dict
          clean,     \* DATA_CLEAN / data_model.model_to_data(data)
          noisy,     \* DATA_NOISY / data_vol after +=, per execution (<<>>: none)
          stdout,    \* lines the script itself printed
          fs,        \* files present in the working directory
          runArgs,   \* keyword arguments of each vaby.run call, in order
          runOk,     \* result of each vaby.run call, in order
          shape,     \* data_model.data_space.shape
          sine,      \* the variable sine (3D field)
          points,    \* inflated.points after the world2vox transform
          ctx_sine, ctx_cbf, ctx_att, wm_size, cbf, att

vars == <<driver, pc, err, steps, opts, rng, tfseed, options, clean, noisy,
          stdout, fs, runArgs, runOk, shape, sine, points, ctx_sine, ctx_cbf,
          ctx_att, wm_size, cbf, att>>

hybridVars == <<shape, sine, points, ctx_sine, ctx_cbf, ctx_att, wm_size, cbf, att>>

-----------------------------------------------------------------------------
(* Bounds of the model *)

\* Largest extent of the acquisition volume along its first axis.
MaxDim == 23
\* Number of states of the abstract random generator.
RngMod == 2
\* Largest number of time points (--nt) / samples of the acquisition.
MaxNt == 2
\* Largest number of vertices of the inflated surface.
MaxPoints == 2
\* Largest number of white-matter nodes.
MaxWm == 2

Runs == {1, 2}

-----------------------------------------------------------------------------
(* Fixed-point floats *)

\* One unit of a Python float.
Scale == 1000
\* Spacing of the single-precision grid that .astype(np.float32) rounds to.
F32Quantum == 8
\* Mesh coordinates are kept in units of 1/CoordScale voxel.
CoordScale == 2

Abs(x) == IF x < 0 THEN -x ELSE x
Sign(x) == IF x < 0 THEN -1 ELSE IF x > 0 THEN 1 ELSE 0

\* x / y rounded to the nearest integer, y > 0.
RoundDiv(x, y) == (2 * x + y) \div (2 * y)

Num(n) == [k |-> "num", v |-> n]
NaN == [k |-> "nan", v |-> 0]
Inf(s) == [k |-> "inf", v |-> s]
IsNum(a) == a.k = "num"

\* numpy float division: never raises, x/0 is nan or +-inf.
FDiv(a, b) ==
    IF a.k = "nan" \/ b.k = "nan" THEN NaN
    ELSE IF a.k = "inf" /\ b.k = "inf" THEN NaN
    ELSE IF a.k = "inf" THEN Inf(a.v * (IF b.v < 0 THEN -1 ELSE 1))
    ELSE IF b.k = "inf" THEN Num(0)
    ELSE IF b.v = 0 THEN (IF a.v = 0 THEN NaN ELSE Inf(Sign(a.v)))
    ELSE Num(Sign(b.v) * RoundDiv(a.v * Scale, Abs(b.v)))

FMul(a, b) ==
    IF a.k = "nan" \/ b.k = "nan" THEN NaN
    ELSE IF a.k = "inf" \/ b.k = "inf"
         THEN (IF a.v = 0 \/ b.v = 0 THEN NaN ELSE Inf(Sign(a.v) * Sign(b.v)))
    ELSE Num(RoundDiv(a.v * b.v, Scale))

FAdd(a, b) ==
    IF a.k = "nan" \/ b.k = "nan" THEN NaN
    ELSE IF a.k = "inf" /\ b.k = "inf" THEN (IF a.v = b.v THEN a ELSE NaN)
    ELSE IF a.k = "inf" THEN a
    ELSE IF b.k = "inf" THEN b
    ELSE Num(a.v + b.v)

\* ndarray.astype(np.float32) on one element: round to the coarser grid.
F32(a) == IF IsNum(a) THEN Num(F32Quantum * RoundDiv(a.v, F32Quantum)) ELSE a

-----------------------------------------------------------------------------
(* Python helpers *)

\* dict.update(other)
DictUpdate(d, other) ==
    [key \in DOMAIN d \cup DOMAIN other |->
        IF key \in DOMAIN other THEN other[key] ELSE d[key]]

\* Python truth value of opts.rseed: None and 0 are false.
Truthy(rseed) == Len(rseed) = 1 /\ rseed[1] # 0

\* An uncaught exception: the interpreter exits, nothing else runs.
Raise(name) == /\ pc' = "error"
               /\ err' = name

Step(name, next) == /\ pc' = next
                    /\ err' = err
                    /\ steps' = Append(steps, name)

-----------------------------------------------------------------------------
(* The random generator *)

RngStates == 0 .. (RngMod - 1)

\* np.random.seed(s): the state is a function of s alone.
SeedState(s) == s % RngMod

\* Drawing one deviate advances the state.
RngStep(s) == (s + 1) % RngMod

\* One standard normal deviate read off the state.
Gauss(s) == (s % 3) - 1

\* np.random.normal(loc, scale, [n]) from state s: <<samples, final state>>.
RECURSIVE Normal(_, _, _, _)
Normal(loc, scale, n, s) ==
    IF n = 0 THEN <<<< >>, s>>
    ELSE LET rest == Normal(loc, scale, n - 1, RngStep(s))
         IN  <<<<loc + scale * Gauss(s)>> \o rest[1], rest[2]>>

\* if opts.rseed: np.random.seed(opts.rseed); tf.random.set_seed(opts.rseed)
SeedGuard(rseed) == Truthy(rseed)

\* np.random.seed accepts 0 .. 2**32-1 only.
SeedValid(s) == s >= 0

SeedGenerators(next) ==
    IF SeedGuard(opts.rseed)
    THEN IF SeedValid(opts.rseed[1])
         THEN /\ rng' = [r \in Runs |-> SeedState(opts.rseed[1])]
              /\ tfseed' = [r \in Runs |-> opts.rseed]
              /\ Step("seed", next)
         ELSE /\ Raise("ValueError")
              /\ UNCHANGED <<rng, tfseed, steps>>
    ELSE /\ UNCHANGED <<rng, tfseed>>
         /\ Step("seed", next)

\* a + np.random.normal(0, std, a.shape), in each execution
AddNoise(a, std) ==
    [r \in Runs |-> LET n == Normal(0, std, Len(a), rng[r])[1]
                    IN  [i \in 1 .. Len(a) |-> a[i] + n[i]]]

RngAfterNoise(a, std) ==
    [r \in Runs |-> Normal(0, std, Len(a), rng[r])[2]]

-----------------------------------------------------------------------------
(* Inputs *)

Methods == {"avb", "svb"}
\* --rseed: absent (<<>>), zero, a positive seed, a negative integer.
Seeds == {<< >>, <<0>>, <<1>>, <<-1>>}
\* --noise: 0 and the default 5.
Noises == {0, 5 * Scale}
\* Values a forward model returns for one sample.
CleanVals == {0, 84 * Scale}
CleanTraces(n) == [1 .. n -> CleanVals]
\* Acquisition-space data of the hybrid driver: n samples of one value.
FlatTraces(n) == {[i \in 1 .. n |-> v] : v \in CleanVals}

FabberModelfit == "exp_example_fabber_out/modelfit.nii.gz"
FabberOutput == "biexp_example_fabber_out/modelfit.nii.gz"
NoisyFile == "hybrid_example_asl_data_noisy.nii.gz"

-----------------------------------------------------------------------------
(* biexp_example.py *)

BiexpOpts ==
    [method : Methods, rseed : Seeds, noise : Noises, nt : 1 .. MaxNt,
     fabber : BOOLEAN, plot : BOOLEAN,
     amp1 : {42 * Scale}, rate1 : {Scale}, amp2 : {42 * Scale},
     rate2 : {100}, dt : {100}, debug : {FALSE}]

BiexpBaseOptions(o) ==
    [method |-> o.method, dt |-> o.dt, save_mean |-> TRUE,
     save_model_fit |-> TRUE, save_input_data |-> TRUE,
     save_total_pv |-> TRUE, save_native |-> TRUE, save_model |-> TRUE,
     output |-> "biexp_example_out", debug |-> o.debug,
     log_stream |-> "sys.stdout"]

\* Both methods' hyperparameters merged whatever the method.
BiexpHyperBoth(o) ==
    [epochs |-> 300, learning_rate |-> 100, sample_size |-> 5,
     batch_size |-> 10, max_iterations |-> 200]

BiexpHyper(o) ==
    IF o.method = "svb"
    THEN [epochs |-> 300, learning_rate |-> 100, sample_size |-> 5,
          batch_size |-> 10]
    ELSE IF o.method = "avb"
    THEN [max_iterations |-> 200]
    ELSE << >>

\* A summary that prints the noise variance for the standard deviation.
GroundTruthLineVariance(o) ==
    [a |-> <<o.amp1, o.amp2>>, r |-> <<o.rate1, o.rate2>>,
     noise |-> (o.noise * o.noise) \div Scale]

\* The line printed at biexp_example.py:37.
GroundTruthLine(o) ==
    [a |-> <<o.amp1, o.amp2>>, r |-> <<o.rate1, o.rate2>>, noise |-> o.noise]

InitBiexp ==
    /\ driver = "biexp"
    /\ pc = "seed"
    /\ err = ""
    /\ steps = << >>
    /\ opts \in BiexpOpts
    /\ rng \in [Runs -> RngStates]
    /\ tfseed = [r \in Runs |-> << >>]
    /\ options = << >>
    /\ clean = << >>
    /\ noisy = [r \in Runs |-> << >>]
    /\ stdout = << >>
    /\ fs \in {{}, {FabberModelfit}}
    /\ runArgs = << >>
    /\ runOk = << >>
    /\ shape = << >>
    /\ sine = << >>
    /\ points = << >>
    /\ ctx_sine = << >>
    /\ ctx_cbf = << >>
    /\ ctx_att = << >>
    /\ wm_size = 0
    /\ cbf = << >>
    /\ att = << >>

\* lines 28-30
BiexpSeed ==
    /\ driver = "biexp" /\ pc = "seed"
    /\ SeedGenerators("truth")
    /\ UNCHANGED <<driver, opts, options, clean, noisy, stdout, fs, runArgs,
                   runOk, hybridVars>>

\* lines 33-37: 1/NOISE_VAR_TRUTH is Python float division
BiexpTruth ==
    /\ driver = "biexp" /\ pc = "truth"
    /\ LET NOISE_VAR_TRUTH == (opts.noise * opts.noise) \div Scale
       IN  IF NOISE_VAR_TRUTH = 0
           THEN /\ Raise("ZeroDivisionError")
                /\ UNCHANGED <<steps, stdout>>
           ELSE /\ stdout' = Append(stdout, GroundTruthLine(opts))
                /\ Step("truth", "data")
    /\ UNCHANGED <<driver, opts, rng, tfseed, options, clean, noisy, fs,
                   runArgs, runOk, hybridVars>>

\* lines 43-46
BiexpData ==
    /\ driver = "biexp" /\ pc = "data"
    /\ \E DATA_CLEAN \in CleanTraces(opts.nt) :
          /\ clean' = DATA_CLEAN
          /\ noisy' = AddNoise(DATA_CLEAN, opts.noise)
          /\ rng' = RngAfterNoise(DATA_CLEAN, opts.noise)
    /\ Step("data", "options")
    /\ UNCHANGED <<driver, opts, tfseed, options, stdout, fs, runArgs, runOk,
                   hybridVars>>

\* lines 48-72
BiexpOptions ==
    /\ driver = "biexp" /\ pc = "options"
    /\ options' = DictUpdate(BiexpBaseOptions(opts), BiexpHyper(opts))
    /\ Step("options", "run")
    /\ UNCHANGED <<driver, opts, rng, tfseed, clean, noisy, stdout, fs,
                   runArgs, runOk, hybridVars>>

\* A call whose failure is swallowed: the script goes on.
VabyRunSwallow(next) ==
    /\ runArgs' = Append(runArgs, options)
    /\ \E ok \in BOOLEAN :
          /\ runOk' = Append(runOk, ok)
          /\ Step("run", next)

\* vaby.run(data, model, **options): the call gets a copy of the dict; it
\* returns or raises.
VabyRun(next) ==
    /\ runArgs' = Append(runArgs, options)
    /\ \E ok \in BOOLEAN :
          /\ runOk' = Append(runOk, ok)
          /\ IF ok THEN Step("run", next)
                   ELSE Raise("InferenceFailure") /\ UNCHANGED steps

\* line 74
BiexpRun ==
    /\ driver = "biexp" /\ pc = "run"
    /\ VabyRun("fabber")
    /\ UNCHANGED <<driver, opts, rng, tfseed, options, clean, noisy, stdout,
                   fs, hybridVars>>

\* lines 76-83: os.system returns the exit status and never raises; Fabber
\* writes its model fit under --output when it succeeds; nib.load raises
\* when the file it is asked for is not there.
BiexpFabber ==
    /\ driver = "biexp" /\ pc = "fabber"
    /\ IF opts.fabber
       THEN \E status \in {0, 1} :
               LET written == {"data_noisy.nii.gz"}
                                \cup (IF status = 0 THEN {FabberOutput} ELSE {})
               IN  /\ fs' = fs \cup written
                   /\ IF FabberModelfit \in fs'
                      THEN Step("fabber", "plot")
                      ELSE Raise("FileNotFoundError") /\ UNCHANGED steps
       ELSE /\ fs' = fs
            /\ Step("fabber", "plot")
    /\ UNCHANGED <<driver, opts, rng, tfseed, options, clean, noisy, stdout,
                   runArgs, runOk, hybridVars>>

\* Plotting (matplotlib / pyvista): shows the figure or raises.
Plot ==
    IF opts.plot
    THEN \E ok \in BOOLEAN :
            IF ok THEN Step("plot", "done")
                  ELSE Raise("PlotError") /\ UNCHANGED steps
    ELSE Step("plot", "done")

\* lines 85-95
BiexpPlot ==
    /\ driver = "biexp" /\ pc = "plot"
    /\ Plot
    /\ UNCHANGED <<driver, opts, rng, tfseed, options, clean, noisy, stdout,
                   fs, runArgs, runOk, hybridVars>>

NextBiexp ==
    \/ BiexpSeed
    \/ BiexpTruth
    \/ BiexpData
    \/ BiexpOptions
    \/ BiexpRun
    \/ BiexpFabber
    \/ BiexpPlot

-----------------------------------------------------------------------------
(* hybrid_example_asl.py: the spatial field *)

\* 1000 * sin(n / scale) for scale = 2 (line 90), n = 0 .. 31, rounded.
SinTable ==
    <<0, 479, 841, 997, 909, 598, 141, -351, -757, -978, -959, -706, -279,
      215, 657, 938, 989, 798, 412, -75, -544, -880, -1000, -875, -537, -66,
      420, 804, 991, 935, 650, 206>>

SinHalf(n) == SinTable[n + 1]

\* np.indices(shape): every index of the volume.
Indices(shp) ==
    (0 .. shp[1] - 1) \X (0 .. shp[2] - 1) \X (0 .. shp[3] - 1)

\* lines 91-93
RawSine(shp) ==
    [idx \in Indices(shp) |->
        SinHalf(idx[2]) + SinHalf(idx[1]) + SinHalf(idx[3])]

\* ndarray.max()
ArrayMax(a) ==
    CHOOSE m \in {a[i] : i \in DOMAIN a} : \A i \in DOMAIN a : a[i] <= m

\* line 94: sine = sine / sine.max()
Normalize(raw) ==
    LET m == ArrayMax(raw)
    IN  [idx \in DOMAIN raw |-> FDiv(Num(raw[idx]), Num(m))]

Min(a, b) == IF a < b THEN a ELSE b

\* A bounds check that forgets the upper end of each axis.
OutOfBoundsLowerOnly(shp, p) == \E a \in 1 .. 3 : p[a] < 0

\* interpn's bounds check (bounds_error is left at its default, True): a
\* coordinate below the first or above the last grid point of its axis.
OutOfBounds(shp, p) ==
    \E a \in 1 .. 3 : p[a] < 0 \/ p[a] > CoordScale * (shp[a] - 1)

\* The corners of the grid cell around a point: lower (0) or upper (1)
\* neighbour on each axis.
Corners == {0, 1} \X {0, 1} \X {0, 1}

\* Multilinear interpolation of values at p, a point inside the grid
\* np.arange(d) of every axis.  An axis with a single grid point has no
\* upper neighbour: its one value gets the whole weight.  A nan among the
\* corner values makes the result nan, whatever its weight.
InterpAt(shp, values, p) ==
    LET lo == [a \in 1 .. 3 |->
                 IF shp[a] = 1 THEN 0
                 ELSE Min(p[a] \div CoordScale, shp[a] - 2)]
        hi == [a \in 1 .. 3 |-> IF shp[a] = 1 THEN 0 ELSE lo[a] + 1]
        fr == [a \in 1 .. 3 |-> p[a] - CoordScale * lo[a]]
        at(c) == <<IF c[1] = 1 THEN hi[1] ELSE lo[1],
                   IF c[2] = 1 THEN hi[2] ELSE lo[2],
                   IF c[3] = 1 THEN hi[3] ELSE lo[3]>>
        w(c, a) == IF c[a] = 1 THEN fr[a] ELSE CoordScale - fr[a]
        term(c) == w(c, 1) * w(c, 2) * w(c, 3) * values[at(c)].v
    IN  IF \A c \in Corners : IsNum(values[at(c)])
        THEN Num(RoundDiv(term(<<0, 0, 0>>) + term(<<0, 0, 1>>)
                            + term(<<0, 1, 0>>) + term(<<0, 1, 1>>)
                            + term(<<1, 0, 0>>) + term(<<1, 0, 1>>)
                            + term(<<1, 1, 0>>) + term(<<1, 1, 1>>),
                          CoordScale * CoordScale * CoordScale))
        ELSE NaN

\* scipy.interpolate.interpn(points, values, xi) for in-bounds xi
Interpn(shp, values, xi) ==
    [i \in 1 .. Len(xi) |-> InterpAt(shp, values, xi[i])]

-----------------------------------------------------------------------------
(* hybrid_example_asl.py: the driver *)

\* Volumes of one or two voxels along each axis, and one long volume.
Shapes == {<<a, b, b>> : a \in 1 .. 2, b \in 1 .. 2} \cup {<<MaxDim, 1, 1>>}

\* Vertices of the inflated surface in voxel coordinates (units of
\* 1/CoordScale): the origin, the middle of the first cell (outside a volume
\* one voxel thick), and a vertex below the first grid point.
PointChoices == {<<0, 0, 0>>, <<1, 1, 1>>, <<-1, 0, 0>>}
PointSeqs == UNION {[1 .. n -> PointChoices] : n \in 1 .. MaxPoints}

HybridOpts ==
    [method : Methods, rseed : Seeds, noise : Noises,
     spatial : BOOLEAN, plot : BOOLEAN,
     gm_cbf : {60 * Scale}, gm_cbf_var : {0, 60 * Scale},
     wm_cbf : {20 * Scale}, wm_att : {1600}, gm_att : {1300},
     plds : {<<750, 1000, 1250, 1500, 1750, 2000>>}, repeats : {1},
     epochs : {300}, sample_size : {20}, learning_rate : {200},
     iterations : {50}, debug : {FALSE},
     cort_inner : {"tk/103818.L.mid.32k_fs_LR.surf.gii"},
     cort_outer : {"tk/103818.L.very_inflated.32k_fs_LR.surf.gii"},
     projector : {"tk/103818_L_hemi.h5"},
     wm_pvs : {"tk/wm_pv.nii.gz"}, mask : {"tk/mask.nii.gz"}]

\* lines 50-81
HybridBaseOptions(o) ==
    [method |-> o.method, mask |-> o.mask, plds |-> o.plds,
     repeats |-> o.repeats, casl |-> TRUE, save_mean |-> TRUE,
     save_model_fit |-> TRUE, save_input_data |-> TRUE,
     save_total_pv |-> TRUE, save_native |-> TRUE, save_model |-> TRUE,
     model_structures |->
        <<[name |-> "L", type |-> "CorticalSurface", white |-> o.cort_inner,
           pial |-> o.cort_outer, projector |-> o.projector],
          [name |-> "WM", type |-> "PartialVolumes", vol_data |-> o.wm_pvs,
           mask |-> o.mask]>>,
     debug |-> o.debug, save_log |-> TRUE, log_stream |-> "sys.stdout"]

\* lines 130-140
HybridHyper(o) ==
    IF o.method = "svb"
    THEN [epochs |-> o.epochs, learning_rate |-> o.learning_rate,
          batch_size |-> Len(o.plds), sample_size |-> o.sample_size]
    ELSE IF o.method = "avb"
    THEN [max_iterations |-> o.iterations]
    ELSE << >>

\* lines 142-150
HybridOutput(o) ==
    IF o.spatial
    THEN [param_overrides |-> [ftiss |-> [prior_type |-> "M"]],
          output |-> "hybrid_asl_example_" \o o.method \o "_spatial_out"]
    ELSE [output |-> "hybrid_asl_example_" \o o.method \o "_nonspatial_out"]

\* line 107
CtxCbf(o, cs) ==
    [i \in 1 .. Len(cs) |-> FAdd(Num(o.gm_cbf), FMul(Num(o.gm_cbf_var), cs[i]))]

\* line 108
CtxAtt(o, cc) == [i \in 1 .. Len(cc) |-> Num(o.gm_att)]

\* value * np.ones(n)
Ones(value, n) == [i \in 1 .. n |-> Num(value)]

\* The two regions concatenated in the wrong order.
CompositeWmFirst(ctx, wm) ==
    LET joined == wm \o ctx
    IN  [i \in 1 .. Len(joined) |-> F32(joined[i])]

\* np.concatenate([ctx, wm])[..., np.newaxis].astype(np.float32)
Composite(ctx, wm) ==
    LET joined == ctx \o wm
    IN  [i \in 1 .. Len(joined) |-> F32(joined[i])]

InitHybrid ==
    /\ driver = "hybrid"
    /\ pc = "seed"
    /\ err = ""
    /\ steps = << >>
    /\ opts \in HybridOpts
    /\ rng \in [Runs -> RngStates]
    /\ tfseed = [r \in Runs |-> << >>]
    /\ options = << >>
    /\ clean = << >>
    /\ noisy = [r \in Runs |-> << >>]
    /\ stdout = << >>
    /\ fs = {}
    /\ runArgs = << >>
    /\ runOk = << >>
    /\ shape = << >>
    /\ sine = << >>
    /\ points = << >>
    /\ ctx_sine = << >>
    /\ ctx_cbf = << >>
    /\ ctx_att = << >>
    /\ wm_size = 0
    /\ cbf = << >>
    /\ att = << >>

\* lines 45-47
HybridSeed ==
    /\ driver = "hybrid" /\ pc = "seed"
    /\ SeedGenerators("options")
    /\ UNCHANGED <<driver, opts, options, clean, noisy, stdout, fs, runArgs,
                   runOk, hybridVars>>

\* lines 49-85: the options dict, then the data model read from the files
\* named on the command line (its shape and its white-matter size are what
\* the files hold)
HybridOptions ==
    /\ driver = "hybrid" /\ pc = "options"
    /\ options' = HybridBaseOptions(opts)
    /\ \E shp \in Shapes, n \in 1 .. MaxWm :
          /\ shape' = shp
          /\ wm_size' = n
    /\ Step("options", "sine")
    /\ UNCHANGED <<driver, opts, rng, tfseed, clean, noisy, stdout, fs,
                   runArgs, runOk, sine, points, ctx_sine, ctx_cbf, ctx_att,
                   cbf, att>>

\* lines 89-94
HybridSine ==
    /\ driver = "hybrid" /\ pc = "sine"
    /\ sine' = Normalize(RawSine(shape))
    /\ Step("sine", "interp")
    /\ UNCHANGED <<driver, opts, rng, tfseed, options, clean, noisy, stdout,
                   fs, runArgs, runOk, shape, points, ctx_sine, ctx_cbf,
                   ctx_att, wm_size, cbf, att>>

\* lines 99-106: interpn raises ValueError when a point is out of bounds
HybridInterp ==
    /\ driver = "hybrid" /\ pc = "interp"
    /\ \E xi \in PointSeqs :
          /\ points' = xi
          /\ IF \E i \in 1 .. Len(xi) : OutOfBounds(shape, xi[i])
             THEN /\ Raise("ValueError")
                  /\ UNCHANGED <<steps, ctx_sine>>
             ELSE /\ ctx_sine' = Interpn(shape, sine, xi)
                  /\ Step("interp", "params")
    /\ UNCHANGED <<driver, opts, rng, tfseed, options, clean, noisy, stdout,
                   fs, runArgs, runOk, shape, sine, ctx_cbf, ctx_att, wm_size,
                   cbf, att>>

\* lines 107-117
HybridParams ==
    /\ driver = "hybrid" /\ pc = "params"
    /\ ctx_cbf' = CtxCbf(opts, ctx_sine)
    /\ ctx_att' = CtxAtt(opts, ctx_cbf')
    /\ cbf' = Composite(ctx_cbf', Ones(opts.wm_cbf, wm_size))
    /\ att' = Composite(ctx_att', Ones(opts.wm_att, wm_size))
    /\ Step("params", "noiseprec")
    /\ UNCHANGED <<driver, opts, rng, tfseed, options, clean, noisy, stdout,
                   fs, runArgs, runOk, shape, sine, points, ctx_sine, wm_size>>

\* lines 120-122: 1/noise_var_truth is Python float division
HybridNoisePrec ==
    /\ driver = "hybrid" /\ pc = "noiseprec"
    /\ LET noise_var_truth == (opts.noise * opts.noise) \div Scale
       IN  IF noise_var_truth = 0
           THEN Raise("ZeroDivisionError") /\ UNCHANGED steps
           ELSE Step("noiseprec", "noise")
    /\ UNCHANGED <<driver, opts, rng, tfseed, options, clean, noisy, stdout,
                   fs, runArgs, runOk, hybridVars>>

\* lines 125-127: the acquisition-space data, the noise, the file saved
HybridNoise ==
    /\ driver = "hybrid" /\ pc = "noise"
    /\ \E data_vol \in FlatTraces(MaxNt) :
          /\ clean' = data_vol
          /\ noisy' = AddNoise(data_vol, opts.noise)
          /\ rng' = RngAfterNoise(data_vol, opts.noise)
    /\ fs' = fs \cup {NoisyFile}
    /\ Step("noise", "update")
    /\ UNCHANGED <<driver, opts, tfseed, options, stdout, runArgs, runOk,
                   hybridVars>>

\* lines 130-150
HybridUpdate ==
    /\ driver = "hybrid" /\ pc = "update"
    /\ options' = DictUpdate(DictUpdate(options, HybridHyper(opts)),
                             HybridOutput(opts))
    /\ Step("update", "run")
    /\ UNCHANGED <<driver, opts, rng, tfseed, clean, noisy, stdout, fs,
                   runArgs, runOk, hybridVars>>

\* line 152
HybridRun ==
    /\ driver = "hybrid" /\ pc = "run"
    /\ VabyRun("savetruth")
    /\ UNCHANGED <<driver, opts, rng, tfseed, options, clean, noisy, stdout,
                   fs, hybridVars>>

\* lines 155-158
HybridSaveTruth ==
    /\ driver = "hybrid" /\ pc = "savetruth"
    /\ fs' = fs \cup {options["output"] \o "/hybrid_example_asl_data_clean",
                      options["output"] \o "/true_ftiss"}
    /\ Step("savetruth", "plot")
    /\ UNCHANGED <<driver, opts, rng, tfseed, options, clean, noisy, stdout,
                   runArgs, runOk, hybridVars>>

\* lines 161-179
HybridPlot ==
    /\ driver = "hybrid" /\ pc = "plot"
    /\ Plot
    /\ UNCHANGED <<driver, opts, rng, tfseed, options, clean, noisy, stdout,
                   fs, runArgs, runOk, hybridVars>>

NextHybrid ==
    \/ HybridSeed
    \/ HybridOptions
    \/ HybridSine
    \/ HybridInterp
    \/ HybridParams
    \/ HybridNoisePrec
    \/ HybridNoise
    \/ HybridUpdate
    \/ HybridRun
    \/ HybridSaveTruth
    \/ HybridPlot

Init == InitBiexp \/ InitHybrid

Next == NextBiexp \/ NextHybrid

Spec == Init /\ [][Next]_vars

-----------------------------------------------------------------------------
(* Properties *)

Done(name) == \E i \in 1 .. Len(steps) : steps[i] = name

\* The noisy trace exists (line 46 of biexp, line 126 of hybrid has run).
NoiseDone == \A r \in Runs : noisy[r] # << >>

SeedGiven == Len(opts.rseed) = 1

\* C1: for every seed given as --rseed, 0 included, two executions with the
\* same arguments and the same order of draws produce the same noisy trace.
C1_SeededRunsReproducible ==
    (SeedGiven /\ NoiseDone) => noisy[1] = noisy[2]

\* C1, the part the code does keep: a seed that is not 0 makes the two
\* executions agree.
C1_NonZeroSeedReproducible ==
    (SeedGiven /\ opts.rseed[1] # 0 /\ NoiseDone) => noisy[1] = noisy[2]

\* The run has come to the statements that compute the noise.
AtNoiseSection ==
    \/ driver = "biexp" /\ Done("seed")
    \/ driver = "hybrid" /\ Done("params")

\* C2: with --noise 0 the run does not fail before or during noise
\* injection, and the noisy trace equals the clean trace.
C2_ZeroNoiseIsIdentity ==
    opts.noise = 0 =>
        /\ (pc = "error" /\ AtNoiseSection) => NoiseDone
        /\ NoiseDone => \A r \in Runs : noisy[r] = clean

InUnitRange(a) == IsNum(a) /\ -Scale <= a.v /\ a.v <= Scale

\* The sum of the three sinusoids, before line 94, is not zero everywhere.
FieldNotZero ==
    \E i \in Indices(shape) :
        SinHalf(i[2]) + SinHalf(i[1]) + SinHalf(i[3]) # 0

\* C3: for every volume whose field is not constant zero, every value of
\* the normalized field, and every value interpolated from it at the mesh
\* coordinates, lies in [-1, 1].
C3_NormalizedFieldInUnitRange ==
    (driver = "hybrid" /\ Done("sine") /\ FieldNotZero) =>
        /\ \A i \in DOMAIN sine : InUnitRange(sine[i])
        /\ \A i \in DOMAIN ctx_sine : InUnitRange(ctx_sine[i])

\* The sum of the three sinusoids has the same value at every voxel.
FieldConstant ==
    \A i, j \in Indices(shape) :
        SinHalf(i[2]) + SinHalf(i[1]) + SinHalf(i[3])
            = SinHalf(j[2]) + SinHalf(j[1]) + SinHalf(j[3])

\* C4: when the spatial field is constant, every cortical entry of the
\* composite CBF vector equals --gm-cbf.
C4_ConstantFieldGivesBase ==
    (driver = "hybrid" /\ Done("params") /\ FieldConstant) =>
        \A i \in 1 .. Len(points) : cbf[i] = Num(opts.gm_cbf)

\* C5: a failure of the Fabber comparison (the tool fails or its model fit
\* cannot be loaded) or of plotting never aborts the run.
C5_ComparisonFailureNeverAborts ==
    pc = "error" => err \notin {"FileNotFoundError", "PlotError"}

\* Some vertex lies outside [0, d-1] on some axis of the volume.
SomePointOutside ==
    \E i \in 1 .. Len(points) : \E a \in 1 .. 3 :
        \/ points[i][a] < 0
        \/ points[i][a] > CoordScale * (shape[a] - 1)

\* C6: when a mesh coordinate lies outside the volume, interpolation fails
\* and the run aborts before any interpolated value, parameter vector,
\* noisy dataset or inference call is produced.
C6_OutOfBoundsAborts ==
    (driver = "hybrid" /\ SomePointOutside) =>
        /\ pc = "error" /\ err = "ValueError"
        /\ ctx_sine = << >> /\ ctx_cbf = << >> /\ ctx_att = << >>
        /\ cbf = << >> /\ att = << >>
        /\ \A r \in Runs : noisy[r] = << >>
        /\ NoisyFile \notin fs
        /\ runArgs = << >>

C6_Witness ==
    driver = "hybrid" /\ SomePointOutside /\ pc = "error"

\* The normalized field sampled at vertex i (lines 102-106).
FieldAt(i) == ctx_sine[i]

\* C7 as stated: cortical entries are gm_cbf + gm_cbf_var * field (CBF) and
\* gm_att (ATT), white-matter entries are wm_cbf and wm_att, cortical
\* entries come first, and both vectors have one entry per location.
C7_CompositeExact ==
    (driver = "hybrid" /\ Done("params")) =>
        /\ Len(cbf) = Len(points) + wm_size
        /\ Len(att) = Len(points) + wm_size
        /\ \A i \in 1 .. Len(points) :
              /\ cbf[i] = FAdd(Num(opts.gm_cbf),
                               FMul(Num(opts.gm_cbf_var), FieldAt(i)))
              /\ att[i] = Num(opts.gm_att)
        /\ \A j \in 1 .. wm_size :
              /\ cbf[Len(points) + j] = Num(opts.wm_cbf)
              /\ att[Len(points) + j] = Num(opts.wm_att)

\* x as a single-precision value.
Single(a) == IF IsNum(a) THEN Num(F32Quantum * RoundDiv(a.v, F32Quantum)) ELSE a

\* C7 as the code has it: every entry is the value above rounded to single
\* precision.
C7_CompositeSingle ==
    (driver = "hybrid" /\ Done("params")) =>
        /\ Len(cbf) = Len(points) + wm_size
        /\ Len(att) = Len(points) + wm_size
        /\ \A i \in 1 .. Len(points) :
              /\ cbf[i] = Single(FAdd(Num(opts.gm_cbf),
                                      FMul(Num(opts.gm_cbf_var), FieldAt(i))))
              /\ att[i] = Single(Num(opts.gm_att))
        /\ \A j \in 1 .. wm_size :
              /\ cbf[Len(points) + j] = Single(Num(opts.wm_cbf))
              /\ att[Len(points) + j] = Single(Num(opts.wm_att))

C7_Witness ==
    /\ driver = "hybrid" /\ Done("params")
    /\ Len(points) = 2 /\ wm_size = 2
    /\ points[1] # points[2]
    /\ cbf[1] # cbf[2]
    /\ att[1] # Num(opts.gm_att)

SvbKeys == {"epochs", "learning_rate", "sample_size", "batch_size"}
AvbKeys == {"max_iterations"}

\* The dict built before the method's hyperparameters are merged in.
BaseConfig ==
    IF driver = "biexp" THEN BiexpBaseOptions(opts) ELSE HybridBaseOptions(opts)

\* Keys the hybrid driver sets after the merge and before the call.
OutputKeys ==
    IF driver = "biexp" THEN {}
    ELSE IF opts.spatial THEN {"output", "param_overrides"} ELSE {"output"}

\* C8: the configuration passed to vaby.run holds the base configuration
\* and exactly the chosen method's hyperparameters, and from the call on
\* the options dict keeps every key and value it had at the call.
C8_RunConfig ==
    \A c \in 1 .. Len(runArgs) :
        LET cfg == runArgs[c]
        IN  /\ \A key \in DOMAIN BaseConfig :
                  key \in DOMAIN cfg /\ cfg[key] = BaseConfig[key]
            /\ DOMAIN cfg \ DOMAIN BaseConfig
                  = (IF opts.method = "svb" THEN SvbKeys ELSE AvbKeys)
                      \cup OutputKeys
            /\ options = cfg

C8_Witness ==
    /\ Len(runArgs) = 1 /\ pc = "done"
    /\ opts.method = "svb" /\ "batch_size" \in DOMAIN options

\* C9 as stated: every run of either driver that completes has printed the
\* ground-truth summary.
C9_SummaryPrinted ==
    pc = "done" => Len(stdout) >= 1

\* C9 as the code has it: a completed run of the biexp driver has printed
\* the amplitudes, the rates and the noise level given on the command line.
C9_BiexpSummaryPrinted ==
    (driver = "biexp" /\ pc = "done") =>
        \E i \in 1 .. Len(stdout) :
            /\ stdout[i].a = <<opts.amp1, opts.amp2>>
            /\ stdout[i].r = <<opts.rate1, opts.rate2>>
            /\ stdout[i].noise = opts.noise

C9_Witness == driver = "biexp" /\ pc = "done" /\ Len(stdout) = 1

LaterSteps == {"fabber", "savetruth", "plot"}

\* C10: vaby.run is called at most once and only after the noisy data
\* exists (and, in the hybrid driver, is saved to the file the call reads);
\* when the call fails it is not retried, no later step runs, and the
\* process ends in error.
C10_RunOnceNoRetry ==
    /\ Len(runArgs) <= 1
    /\ Len(runArgs) = 1 =>
          /\ NoiseDone
          /\ \A r \in Runs : Len(noisy[r]) = Len(clean)
          /\ driver = "hybrid" => NoisyFile \in fs
    /\ (Len(runOk) = 1 /\ ~runOk[1]) =>
          /\ pc = "error" /\ err = "InferenceFailure"
          /\ \A l \in LaterSteps : ~Done(l)
          /\ FabberOutput \notin fs /\ "data_noisy.nii.gz" \notin fs
          /\ \A f \in fs : f \in {NoisyFile, FabberModelfit}

C10_Witness ==
    Len(runOk) = 1 /\ ~runOk[1] /\ pc = "error"

=============================================================================
